---- MODULE Spec2Model ----
(***************************************************************************)
(* Model of src/src/half.c: the four converters between IEEE-754 half,     *)
(* single and double bit patterns, with their static probe state.          *)
(*                                                                         *)
(* A cmsUInt16Number is a natural below 2^16.  A cmsUInt32Number is a pair *)
(* <<high 16 bits, low 16 bits>>, so that no intermediate exceeds the      *)
(* range of the model checker's integers; all 32-bit arithmetic is modulo  *)
(* 2^32 as in C.  A double is two adjacent 32-bit words in host order.     *)
(***************************************************************************)
EXTENDS Integers, Sequences, FiniteSets, TLC

VARIABLES
    host,       \* [hiFirst, high]: word order of a double and high word of 1.0 on this host
    FLASE,      \* truth value of the identifier FLASE (half.c:107), fixed by the build
    checkieee,  \* [converter -> BOOLEAN], the four static flags
    next,       \* [converter -> 0..1], the four static word-order values
    probes,     \* number of executions of a probe block so far
    calls,      \* number of completed calls so far
    fn,         \* the converter of the latest call, "none" before any call
    source,     \* the source buffer of the latest call (NULL or a sequence)
    target,     \* the target buffer of the latest call, as the call left it
    prior,      \* the same target buffer as it was when the call started
    numel,      \* the element count of the latest call
    ret,        \* the value the latest call returned
    orig,       \* the pattern a conversion chain started from
    pc,         \* [thread -> label], position of each thread in its call
    seen,       \* [thread -> value of 'next' the thread added to xp, or -1]
    tret,       \* [thread -> the value its call returned, once pc is "done"]
    sbuf,       \* [thread -> stores of the thread not yet visible to the others]
    tout        \* [thread -> the thread's own target buffer]

vars == <<host, FLASE, checkieee, next, probes, calls, fn, source, target,
          prior, numel, ret, orig, pc, seen, tret, sbuf, tout>>

\* the null address: a buffer that holds no element (every other buffer of
\* the model holds at least one)
NULL == <<>>

Converters == {"singles2halfp", "doubles2halfp", "halfp2singles", "halfp2doubles"}

-----------------------------------------------------------------------------
(* Fixed-width integers                                                    *)

Pow2(n) == 2^n

\* a & b on naturals below 2^16
RECURSIVE And16(_, _)
And16(a, b) ==
    IF a = 0 \/ b = 0 THEN 0
    ELSE (a % 2) * (b % 2) + 2 * And16(a \div 2, b \div 2)

\* a | b on naturals below 2^16
Or16(a, b) == a + b - And16(a, b)

\* (cmsUInt16Number) of an int
U16(n) == n % 65536

\* a cmsUInt32Number from an int (negative ints wrap modulo 2^32)
U32(n) == IF n >= 0 THEN <<n \div 65536, n % 65536>>
          ELSE <<65535 - ((-n - 1) \div 65536), 65535 - ((-n - 1) % 65536)>>

And32(x, m) == <<And16(x[1], m[1]), And16(x[2], m[2])>>
Or32(x, y)  == <<Or16(x[1], y[1]), Or16(x[2], y[2])>>

\* x >> n for 0 <= n <= 31
Shr32(x, n) ==
    IF n >= 16 THEN <<0, x[1] \div Pow2(n - 16)>>
    ELSE <<x[1] \div Pow2(n), (x[1] % Pow2(n)) * Pow2(16 - n) + (x[2] \div Pow2(n))>>

\* x << n modulo 2^32 for 0 <= n <= 31
Shl32(x, n) ==
    IF n >= 16 THEN <<(x[2] * Pow2(n - 16)) % 65536, 0>>
    ELSE <<((x[1] * Pow2(n)) % 65536) + (x[2] \div Pow2(16 - n)), (x[2] * Pow2(n)) % 65536>>

\* a - b modulo 2^32
Sub32(a, b) ==
    LET lo == a[2] - b[2]
        br == IF lo < 0 THEN 1 ELSE 0
    IN  <<(a[1] - b[1] - br) % 65536, lo % 65536>>

\* a + b modulo 2^32
Add32(a, b) ==
    LET lo == a[2] + b[2]
    IN  <<(a[1] + b[1] + (lo \div 65536)) % 65536, lo % 65536>>

\* unsigned comparisons
Gt32(a, b) == a[1] > b[1] \/ (a[1] = b[1] /\ a[2] > b[2])
Ge32(a, b) == a = b \/ Gt32(a, b)

\* (cmsUInt16Number) of a cmsUInt32Number
Lo16(x) == x[2]

\* (cmsUInt32Number) of a cmsUInt16Number
Wide(h) == <<0, h>>

Zero32 == <<0, 0>>

-----------------------------------------------------------------------------
(* The loop bodies: one source element to one target element               *)

\* the shift count of a C shift whose right operand is the unsigned value s
ShiftCount(s) == s[2]

\* a variant that keeps the sign of a NaN and sets only its first mantissa bit
singles2halfp_InfNaN_signed(xs, xm) ==
    Lo16(Or32(Shr32(xs, 16), IF xm = Zero32 THEN <<0, \h7C00>> ELSE <<0, \h7E00>>))

\* half.c:125-129, the half stored for a single whose exponent bits are all set
singles2halfp_InfNaN(xs, xm) ==
    IF xm = Zero32 THEN Lo16(Or32(Shr32(xs, 16), <<0, \h7C00>>))
    ELSE \hFE00

\* a variant that tests the lowest kept bit instead of the first dropped bit
singles2halfp_round_0x2000(xm) == And32(xm, <<0, \h2000>>) # Zero32

\* half.c:148, if( xm & 0x00001000u ): the first dropped mantissa bit is set
singles2halfp_round(xm) == And32(xm, <<0, \h1000>>) # Zero32

\* half.c:240, if( xm & 0x00000200u ): the first dropped mantissa bit is set
doubles2halfp_round(xm) == And32(xm, <<0, \h0200>>) # Zero32

\* half.c:132, hes as declared at half.c:90 (cmsUInt32Number)
singles_hes(xe) == U32(Shr32(xe, 23)[2] - 127 + 15)

\* half.c:115-153, the half pattern stored for the single pattern x
singles2halfp_body(x) ==
    IF And32(x, <<\h7FFF, \hFFFF>>) = Zero32 THEN Lo16(Shr32(x, 16))
    ELSE
      LET xs == And32(x, <<\h8000, \h0000>>)
          xe == And32(x, <<\h7F80, \h0000>>)
          xm == And32(x, <<\h007F, \hFFFF>>)
      IN  IF xe = Zero32 THEN Lo16(Shr32(xs, 16))
          ELSE IF xe = <<\h7F80, \h0000>> THEN singles2halfp_InfNaN(xs, xm)
          ELSE
            LET hs  == Lo16(Shr32(xs, 16))
                hes == singles_hes(xe)
            IN  IF Ge32(hes, <<0, \h1F>>) THEN
                    Lo16(Or32(Shr32(xs, 16), <<0, \h7C00>>))
                ELSE IF hes = Zero32 THEN
                    LET xmh == Or32(xm, <<\h0080, \h0000>>)
                        hm0 == Lo16(Shr32(xmh, ShiftCount(Sub32(U32(14), hes))))
                        hm  == IF Gt32(Sub32(U32(14), hes), U32(24)) THEN 0
                               ELSE IF And32(Shr32(xmh, ShiftCount(Sub32(U32(13), hes))),
                                             <<0, 1>>) # Zero32
                                    THEN U16(hm0 + 1)
                                    ELSE hm0
                    IN  Or16(hs, hm)
                ELSE
                    LET he == Lo16(Shl32(hes, 10))
                        hm == Lo16(Shr32(xm, 13))
                    IN  IF singles2halfp_round(xm)
                        THEN U16(Or16(Or16(hs, he), hm) + 1)
                        ELSE Or16(Or16(hs, he), hm)

\* half.c:224, hes as declared at half.c:180 (cmsUInt32Number)
doubles_hes(xe) == U32(Shr32(xe, 20)[2] - 1023 + 15)

\* half.c:207-246, the half pattern stored for the 32-bit word x that the
\* loop reads from the double (the other word of the double is skipped)
doubles2halfp_body(x) ==
    IF And32(x, <<\h7FFF, \hFFFF>>) = Zero32 THEN Lo16(Shr32(x, 16))
    ELSE
      LET xs == And32(x, <<\h8000, \h0000>>)
          xe == And32(x, <<\h7FF0, \h0000>>)
          xm == And32(x, <<\h000F, \hFFFF>>)
      IN  IF xe = Zero32 THEN Lo16(Shr32(xs, 16))
          ELSE IF xe = <<\h7FF0, \h0000>> THEN
              IF xm = Zero32 THEN Lo16(Or32(Shr32(xs, 16), <<0, \h7C00>>))
              ELSE \hFE00
          ELSE
            LET hs  == Lo16(Shr32(xs, 16))
                hes == doubles_hes(xe)
            IN  IF Ge32(hes, <<0, \h1F>>) THEN
                    Lo16(Or32(Shr32(xs, 16), <<0, \h7C00>>))
                ELSE IF hes = Zero32 THEN
                    LET xmh == Or32(xm, <<\h0010, \h0000>>)
                        hm0 == Lo16(Shr32(xmh, ShiftCount(Sub32(U32(11), hes))))
                        hm  == IF Gt32(Sub32(U32(10), hes), U32(21)) THEN 0
                               ELSE IF And32(Shr32(xmh, ShiftCount(Sub32(U32(10), hes))),
                                             <<0, 1>>) # Zero32
                                    THEN U16(hm0 + 1)
                                    ELSE hm0
                    IN  Or16(hs, hm)
                ELSE
                    LET he == Lo16(Shl32(hes, 10))
                        hm == Lo16(Shr32(xm, 10))
                    IN  IF doubles2halfp_round(xm)
                        THEN U16(Or16(Or16(hs, he), hm) + 1)
                        ELSE Or16(Or16(hs, he), hm)

\* a variant with the digits of the sign mask misplaced
half_sign_0x0800(h) == And16(h, \h0800)

\* half.c:301 and 385, hs = h & 0x8000u
half_sign(h) == And16(h, \h8000)

\* half.c:305-309 and 389-393: e starts at (cmsUInt32Number) -1; the do-loop
\* increments e and doubles hm until bit 10 of hm is set.  Yields <<e, hm>>.
RECURSIVE Normalize(_, _)
Normalize(e, hm) ==
    LET e1  == Add32(e, <<0, 1>>)
        hm1 == U16(hm * 2)
    IN  IF And16(hm1, \h0400) = 0 THEN Normalize(e1, hm1) ELSE <<e1, hm1>>

\* half.c:297-328, the single pattern stored for the half pattern h
halfp2singles_body(h) ==
    IF And16(h, \h7FFF) = 0 THEN Shl32(Wide(h), 16)
    ELSE
      LET hs == half_sign(h)
          he == And16(h, \h7C00)
          hm == And16(h, \h03FF)
      IN  IF he = 0 THEN
              LET n   == Normalize(<<\hFFFF, \hFFFF>>, hm)
                  xs  == Shl32(Wide(hs), 16)
                  xes == Sub32(U32((he \div 1024) - 15 + 127), n[1])
                  xe  == Shl32(xes, 23)
                  xm  == Shl32(Wide(And16(n[2], \h03FF)), 13)
              IN  Or32(Or32(xs, xe), xm)
          ELSE IF he = \h7C00 THEN
              IF hm = 0 THEN Or32(Shl32(Wide(hs), 16), <<\h7F80, \h0000>>)
              ELSE <<\hFFC0, \h0000>>
          ELSE
              LET xs  == Shl32(Wide(hs), 16)
                  xes == U32((he \div 1024) - 15 + 127)
                  xe  == Shl32(xes, 23)
                  xm  == Shl32(Wide(hm), 13)
              IN  Or32(Or32(xs, xe), xm)

\* half.c:381-412, the 32-bit word stored for the half pattern h (the loop
\* then steps over the other word of the double without storing to it)
halfp2doubles_body(h) ==
    IF And16(h, \h7FFF) = 0 THEN Shl32(Wide(h), 16)
    ELSE
      LET hs == half_sign(h)
          he == And16(h, \h7C00)
          hm == And16(h, \h03FF)
      IN  IF he = 0 THEN
              LET n   == Normalize(<<\hFFFF, \hFFFF>>, hm)
                  xs  == Shl32(Wide(hs), 16)
                  xes == Sub32(U32((he \div 1024) - 15 + 1023), n[1])
                  xe  == Shl32(xes, 20)
                  xm  == Shl32(Wide(And16(n[2], \h03FF)), 10)
              IN  Or32(Or32(xs, xe), xm)
          ELSE IF he = \h7C00 THEN
              IF hm = 0 THEN Or32(Shl32(Wide(hs), 16), <<\h7FF0, \h0000>>)
              ELSE <<\hFFF8, \h0000>>
          ELSE
              LET xs  == Shl32(Wide(hs), 16)
                  xes == U32((he \div 1024) - 15 + 1023)
                  xe  == Shl32(xes, 20)
                  xm  == Shl32(Wide(hm), 10)
              IN  Or32(Or32(xs, xe), xm)

-----------------------------------------------------------------------------
(* The probe and the four converters                                       *)

IEEE_ONE == <<\h3FF0, \h0000>>

\* half.c:93, "double one = 1.0" as the two 32-bit words the host stores:
\* the high-order word first or second, the low-order word of 1.0 being zero
one == IF host.hiFirst THEN <<host.high, Zero32>> ELSE <<Zero32, host.high>>

\* half.c:97-104: the word-order value the probe stores in 'next' and
\* whether the word it then looks at is the IEEE-754 pattern of 1.0
Probe ==
    LET ip0 == one[1]
    IN  [next |-> IF ip0 # Zero32 THEN 0 ELSE 1,
         ok   |-> (IF ip0 # Zero32 THEN one[1] ELSE one[2]) = IEEE_ONE]

\* half.c:114-155, while( numel-- ): n sources read, n targets stored
singles2halfp_loop(tgt, src, n) ==
    [i \in 1..Len(tgt) |-> IF i <= n THEN singles2halfp_body(src[i]) ELSE tgt[i]]

\* half.c:200 and 206-247: xp starts 'nxt' words into the source and
\* advances two words per element
doubles2halfp_loop(tgt, src, n, nxt) ==
    [i \in 1..Len(tgt) |->
        IF i <= n THEN doubles2halfp_body(src[nxt + 2 * (i - 1) + 1]) ELSE tgt[i]]

\* half.c:296-329
halfp2singles_loop(tgt, src, n) ==
    [i \in 1..Len(tgt) |-> IF i <= n THEN halfp2singles_body(src[i]) ELSE tgt[i]]

\* a variant whose loop tests the count after the body, not before it
halfp2doubles_loop_testlast(tgt, src, n, nxt) ==
    [j \in 1..Len(tgt) |->
        IF j > nxt /\ (j - nxt - 1) % 2 = 0 /\ (j - nxt - 1) \div 2 <= n
        THEN halfp2doubles_body(src[(j - nxt - 1) \div 2 + 1])
        ELSE tgt[j]]

\* half.c:375 and 380-414: xp starts 'nxt' words into the target; one word
\* is stored per element and the word after it is stepped over
halfp2doubles_loop(tgt, src, n, nxt) ==
    [j \in 1..Len(tgt) |->
        IF j > nxt /\ (j - nxt - 1) % 2 = 0 /\ (j - nxt - 1) \div 2 < n
        THEN halfp2doubles_body(src[(j - nxt - 1) \div 2 + 1])
        ELSE tgt[j]]

\* the target buffer as converter f leaves it once past the NULL test
Loop(f, tgt, src, n, nxt) ==
    CASE f = "singles2halfp" -> singles2halfp_loop(tgt, src, n)
      [] f = "doubles2halfp" -> doubles2halfp_loop(tgt, src, n, nxt)
      [] f = "halfp2singles" -> halfp2singles_loop(tgt, src, n)
      [] f = "halfp2doubles" -> halfp2doubles_loop(tgt, src, n, nxt)

\* the value stored in checkieee once the probe has passed:
\* half.c:107 (FLASE), 197, 290, 372 (FALSE)
Cleared(f) == IF f = "singles2halfp" THEN FLASE ELSE FALSE

\* a variant that reports success when the probe fails
ProbeFailed_TRUE == TRUE

\* the value a call returns when the probe fails (half.c:105, 195, 288, 370)
ProbeFailed == FALSE

\* the test that guards the loop (half.c:110, 202, 293, 377)
NothingToConvert(tgt, src) == src = NULL \/ tgt = NULL

\* One whole call of converter f (half.c:84-157, 174-249, 266-331, 348-416)
Converter(f, tgt, src, n) ==
    LET run == checkieee[f]
        p   == Probe
        nxt == IF run THEN p.next ELSE next[f]
    IN  /\ probes' = IF run THEN probes + 1 ELSE probes
        /\ next' = [next EXCEPT ![f] = nxt]
        /\ IF run /\ ~p.ok
           THEN /\ ret' = ProbeFailed
                /\ target' = tgt
                /\ UNCHANGED checkieee
           ELSE /\ checkieee' = IF run THEN [checkieee EXCEPT ![f] = Cleared(f)]
                                ELSE checkieee
                /\ ret' = TRUE
                /\ target' = IF NothingToConvert(tgt, src) THEN tgt
                             ELSE Loop(f, tgt, src, n, nxt)
        /\ fn' = f
        /\ source' = src
        /\ prior' = tgt
        /\ numel' = n
        /\ calls' = calls + 1
        /\ UNCHANGED <<host, FLASE>>

singles2halfp(tgt, src, n) == Converter("singles2halfp", tgt, src, n)
doubles2halfp(tgt, src, n) == Converter("doubles2halfp", tgt, src, n)
halfp2singles(tgt, src, n) == Converter("halfp2singles", tgt, src, n)
halfp2doubles(tgt, src, n) == Converter("halfp2doubles", tgt, src, n)

-----------------------------------------------------------------------------
(* Hosts                                                                   *)

\* the high-order word of 1.0: IEEE-754 binary64, IBM hexadecimal
OneHighWords == {IEEE_ONE, <<\h4110, \h0000>>}

\* a host: the high-order word of its 1.0 and whether it stores the
\* high-order word of a double first
Hosts == [hiFirst : BOOLEAN, high : OneHighWords]

Compliant(h) == h.high = IEEE_ONE
CompliantHosts == {h \in Hosts : Compliant(h)}

\* the index (from 0) of the high-order word of a double on host h
HighIndex(h) == IF h.hiFirst THEN 0 ELSE 1

\* the two words of a double with high word hi and low word lo, in the
\* memory order of host h
DoubleWords(h, hi, lo) == IF h.hiFirst THEN <<hi, lo>> ELSE <<lo, hi>>

\* static cmsBool checkieee = TRUE; static cmsUInt32Number next;
StaticsInit ==
    /\ checkieee = [f \in Converters |-> TRUE]
    /\ next = [f \in Converters |-> 0]
    /\ probes = 0
    /\ calls = 0

NoThreads ==
    /\ pc = <<>>
    /\ seen = <<>>
    /\ tret = <<>>
    /\ sbuf = <<>>
    /\ tout = <<>>

-----------------------------------------------------------------------------
(* Conversions of single elements, and widen-then-narrow chains            *)

\* half mantissas taken: at most MantBits bits set, or at most MantBits clear
MantBits == 1

RECURSIVE PopCount(_)
PopCount(m) == IF m = 0 THEN 0 ELSE (m % 2) + PopCount(m \div 2)

HalfMantissas ==
    {m \in 0..1023 : PopCount(m) <= MantBits \/ PopCount(m) >= 10 - MantBits}

\* every sign and every exponent field with each of these mantissas
HalfPatterns ==
    {s * 32768 + e * 1024 + m : s \in 0..1, e \in 0..31, m \in HalfMantissas}

\* the ten bits a half keeps, the first bit dropped, and the last bit
TopMantissas == {0, 1, 512, 1023}
SingleMantissas ==
    {t * 8192 + r * 4096 + k : t \in TopMantissas, r \in 0..1, k \in 0..1}
SingleExps == 0..255
SinglePatterns ==
    {<<s * 32768 + e * 128 + (m \div 65536), m % 65536>> :
        s \in 0..1, e \in SingleExps, m \in SingleMantissas}

DoubleHighMantissas ==
    {t * 1024 + r * 512 + k : t \in TopMantissas, r \in 0..1, k \in 0..1}
DoubleExps == (0..1) \cup (996..1040) \cup (2046..2047)
DoubleHighWords ==
    {<<s * 32768 + e * 16 + (m \div 65536), m % 65536>> :
        s \in 0..1, e \in DoubleExps, m \in DoubleHighMantissas}
DoubleLowWords == {Zero32, <<0, 1>>, <<\hFFFF, \hFFFF>>}

\* what a target buffer may hold before a call
PriorWords  == {Zero32, <<\hFFFF, \hFFFF>>}

Inputs ==
    [kind : {"half"}, bits : HalfPatterns]
      \cup [kind : {"single"}, bits : SinglePatterns]
      \cup [kind : {"double"}, bits : DoubleHighWords \X DoubleLowWords]

ConvInit ==
    /\ host \in CompliantHosts
    /\ FLASE \in BOOLEAN
    /\ StaticsInit
    /\ NoThreads
    /\ orig \in Inputs
    /\ fn = "none"
    /\ source = NULL
    /\ target = NULL
    /\ prior = NULL
    /\ numel = 0
    /\ ret = TRUE

Frame == UNCHANGED <<orig, pc, seen, tret, sbuf, tout>>

\* halfp2singles on a one-element buffer holding the half pattern
WidenToSingle ==
    /\ fn = "none" /\ orig.kind = "half"
    /\ \E p \in PriorWords : halfp2singles(<<p>>, <<orig.bits>>, 1)
    /\ Frame

\* halfp2doubles on a one-element buffer holding the half pattern
WidenToDouble ==
    /\ fn = "none" /\ orig.kind = "half"
    /\ \E p \in PriorWords : halfp2doubles(<<p, p>>, <<orig.bits>>, 1)
    /\ Frame

\* singles2halfp on a single pattern, or on the single just produced
NarrowSingle ==
    /\ \/ /\ fn = "none" /\ orig.kind = "single"
          /\ singles2halfp(<<\hFFFF>>, <<orig.bits>>, 1)
       \/ /\ fn = "halfp2singles"
          /\ singles2halfp(<<\hFFFF>>, target, 1)
    /\ Frame

\* doubles2halfp on a double pattern, or on the double just produced
NarrowDouble ==
    /\ \/ /\ fn = "none" /\ orig.kind = "double"
          /\ doubles2halfp(<<\hFFFF>>, DoubleWords(host, orig.bits[1], orig.bits[2]), 1)
       \/ /\ fn = "halfp2doubles"
          /\ doubles2halfp(<<\hFFFF>>, target, 1)
    /\ Frame

ConvNext == WidenToSingle \/ WidenToDouble \/ NarrowSingle \/ NarrowDouble

SpecConv == ConvInit /\ [][ConvNext]_vars

-----------------------------------------------------------------------------
(* Fields and values of patterns, by the IEEE-754 layouts                  *)

HalfSign(h) == h \div 32768
HalfExp(h)  == (h \div 1024) % 32
HalfMant(h) == h % 1024
HalfIsFinite(h) == HalfExp(h) # 31
HalfIsNaN(h)    == HalfExp(h) = 31 /\ HalfMant(h) # 0

\* fields of a 32-bit single pattern
SingleSign(x) == x[1] \div 32768
SingleExp(x)  == (x[1] \div 128) % 256
SingleMant(x) == (x[1] % 128) * 65536 + x[2]

\* fields of the high-order word of a double pattern
DoubleSign(x) == x[1] \div 32768
DoubleExp(x)  == (x[1] \div 16) % 2048
DoubleHighMant(x) == (x[1] % 16) * 65536 + x[2]

\* position of the leading one bit of m > 0
RECURSIVE Log2(_)
Log2(m) == IF m <= 1 THEN 0 ELSE 1 + Log2(m \div 2)

\* The single with the value and the sign of the finite half h: a half
\* denormal m * 2^-24 with leading bit p is 1.f * 2^(p-24), exponent field
\* 127 + p - 24; a half normal keeps its fraction, exponent field e - 15 + 127.
ExactSingle(h) ==
    LET m == HalfMant(h)
        e == HalfExp(h)
        p == Log2(m)
        E == IF e = 0 THEN (IF m = 0 THEN 0 ELSE 103 + p) ELSE e + 112
        M == IF e = 0 THEN (IF m = 0 THEN 0 ELSE (m - 2^p) * 2^(23 - p)) ELSE m * 8192
    IN  <<HalfSign(h) * 32768 + E * 128 + (M \div 65536), M % 65536>>

\* The high-order word of the double with the value and the sign of the
\* finite half h; the low-order word of that double is zero.
ExactDoubleHigh(h) ==
    LET m == HalfMant(h)
        e == HalfExp(h)
        p == Log2(m)
        E == IF e = 0 THEN (IF m = 0 THEN 0 ELSE 999 + p) ELSE e + 1008
        M == IF e = 0 THEN (IF m = 0 THEN 0 ELSE (m - 2^p) * 2^(20 - p)) ELSE m * 1024
    IN  <<HalfSign(h) * 32768 + E * 16 + (M \div 65536), M % 65536>>

\* the high-order and the low-order word of the one double in buffer b
HighOf(b) == b[HighIndex(host) + 1]
LowOf(b)  == b[2 - HighIndex(host)]

Narrowed == fn \in {"singles2halfp", "doubles2halfp"}
Widened  == fn \in {"halfp2singles", "halfp2doubles"}

-----------------------------------------------------------------------------
(* Claims on single conversions, under SpecConv                            *)

\* C1: widen-then-narrow is the identity on every finite half pattern: after
\* halfp2singles then singles2halfp, and after halfp2doubles then
\* doubles2halfp, the half stored equals the finite half the chain started from.
C1_RoundTrip ==
    (Narrowed /\ orig.kind = "half" /\ HalfIsFinite(orig.bits))
        => target[1] = orig.bits

\* C2: singles2halfp stores a signed zero for every single of magnitude below
\* 2^-25 (exponent field below 102) and stores 0x0001 for 0x33800000 (2^-24).
C2_Underflow ==
    fn = "singles2halfp" =>
        /\ SingleExp(source[1]) < 102
              => target[1] = SingleSign(source[1]) * 32768
        /\ source[1] = <<\h3380, \h0000>> => target[1] = 1

\* C6: for every finite half h and every prior content of the target, the
\* single stored by halfp2singles, and the whole double (both words) left by
\* halfp2doubles, is the pattern with exactly the value and sign of h.
C6_WidenExact ==
    (Widened /\ HalfIsFinite(source[1])) =>
        IF fn = "halfp2singles" THEN target[1] = ExactSingle(source[1])
        ELSE /\ HighOf(target) = ExactDoubleHigh(source[1])
             /\ LowOf(target) = Zero32

\* C7: doubles2halfp on a double whose exponent bits are all set stores signed
\* infinity exactly when all 52 mantissa bits are zero, and 0xFE00 whenever
\* any of the 52 mantissa bits is set.
C7_DoubleInfNaN ==
    (fn = "doubles2halfp" /\ DoubleExp(HighOf(source)) = 2047) =>
        target[1] =
            IF DoubleHighMant(HighOf(source)) = 0 /\ LowOf(source) = Zero32
            THEN DoubleSign(HighOf(source)) * 32768 + 31744
            ELSE 65024

\* C8 as stated: for every non-zero half h, NaN included, the sign bit of
\* the pattern written by halfp2singles and halfp2doubles is the sign bit of h.
C8_SignOfEveryNonZero ==
    (Widened /\ source[1] % 32768 # 0) =>
        (IF fn = "halfp2singles" THEN SingleSign(target[1])
         ELSE DoubleSign(HighOf(target))) = HalfSign(source[1])

\* C8 amended: for every non-zero half h that is not a NaN the sign bit
\* written is the sign bit of h; for a NaN of either sign it is 1.
C8_SignKept ==
    (Widened /\ source[1] % 32768 # 0) =>
        (IF fn = "halfp2singles" THEN SingleSign(target[1])
         ELSE DoubleSign(HighOf(target)))
            = (IF HalfIsNaN(source[1]) THEN 1 ELSE HalfSign(source[1]))

\* C8 witness: the smallest negative denormal has been widened to a double
C8_Witness ==
    /\ fn = "halfp2doubles"
    /\ source[1] = 32768 + 1
    /\ DoubleSign(HighOf(target)) = 1

\* C9: singles2halfp stores 0xFE00 for every single NaN, whatever its sign
\* and payload, 0x7C00 for +infinity and 0xFC00 for -infinity.
C9_SingleInfNaN ==
    (fn = "singles2halfp" /\ SingleExp(source[1]) = 255) =>
        target[1] =
            IF SingleMant(source[1]) # 0 THEN 65024
            ELSE IF SingleSign(source[1]) = 1 THEN 64512 ELSE 31744

\* C9 witness: a NaN with a clear sign bit and a payload in the low bits only
C9_Witness ==
    /\ fn = "singles2halfp"
    /\ source[1] = <<\h7F80, \h0001>>
    /\ target[1] = 65024

\* the half exponent of a normalized wide source, wideExp - wideBias + 15
SourceHalfExp ==
    IF fn = "singles2halfp" THEN SingleExp(source[1]) - 127 + 15
    ELSE DoubleExp(HighOf(source)) - 1023 + 15

\* sign | halfExp << 10 | the ten mantissa bits kept, of the wide source
SourceTruncated ==
    IF fn = "singles2halfp"
    THEN SingleSign(source[1]) * 32768 + SourceHalfExp * 1024
            + (SingleMant(source[1]) \div 8192)
    ELSE DoubleSign(HighOf(source)) * 32768 + SourceHalfExp * 1024
            + (DoubleHighMant(HighOf(source)) \div 1024)

\* the first mantissa bit dropped: bit 12 of the single mantissa, bit 9 of
\* the mantissa bits in the double's high word
SourceRoundBit ==
    IF fn = "singles2halfp" THEN (SingleMant(source[1]) \div 4096) % 2
    ELSE (DoubleHighMant(HighOf(source)) \div 512) % 2

\* C11: for every normalized wide source whose re-biased exponent lies in
\* 1..30, singles2halfp and doubles2halfp store sign | halfExp<<10 | top ten
\* mantissa bits, plus the first dropped mantissa bit; halfExp 30 with kept
\* mantissa 0x3FF and that bit set gives exactly signed infinity; the half
\* stored is never a NaN and has the sign bit of the source.
C11_RoundNormal ==
    (Narrowed /\ SourceHalfExp \in 1..30) =>
        /\ target[1] = SourceTruncated + SourceRoundBit
        /\ (SourceHalfExp = 30 /\ SourceTruncated % 1024 = 1023 /\ SourceRoundBit = 1)
              => target[1] = HalfSign(SourceTruncated) * 32768 + 31744
        /\ ~HalfIsNaN(target[1])
        /\ HalfSign(target[1]) = HalfSign(SourceTruncated)

\* C11 witness: the largest single case (halfExp 30, kept mantissa 0x3FF,
\* dropped bit set) has been narrowed to +infinity
C11_Witness ==
    /\ fn = "singles2halfp"
    /\ SingleExp(source[1]) = 142
    /\ SingleMant(source[1]) \div 4096 = 2047
    /\ target[1] = 31744

-----------------------------------------------------------------------------
(* Sequences of calls with any arguments, on any host                      *)

\* calls made in one run
MaxCalls == 2
\* elements in a buffer
BufLen == 2

\* elements a source buffer cycles through, from any starting point:
\* 1.0, a NaN, the smallest denormal
HalfElems == <<\h3C00, \hFC01, \h0001>>
\* a NaN, the largest finite single (overflows), a denormal (underflows)
SingleElems == <<<<\h7FC0, \h0001>>, <<\h7F7F, \hFFFF>>, <<\h0000, \h0001>>>>
\* <<high word, low word>>: 1.0, a NaN, the largest finite double
DoubleElems == <<<<IEEE_ONE, Zero32>>, <<<<\h7FF8, \h0000>>, <<0, 1>>>>,
                 <<<<\h7FEF, \hFFFF>>, <<\hFFFF, \hFFFF>>>>>>

\* the buffer of BufLen elements that cycles through elems from its k-th
Cycle(elems, k) == [i \in 1..BufLen |-> elems[((k + i) % Len(elems)) + 1]]

HalfSources   == {Cycle(HalfElems, k) : k \in 1..Len(HalfElems)}
SingleSources == {Cycle(SingleElems, k) : k \in 1..Len(SingleElems)}
\* doubles laid out word by word in the order of host h
DoubleSources(h) ==
    {[j \in 1..(2 * BufLen) |->
        DoubleWords(h, ds[(j + 1) \div 2][1], ds[(j + 1) \div 2][2])[((j - 1) % 2) + 1]] :
        ds \in {Cycle(DoubleElems, k) : k \in 1..Len(DoubleElems)}}

\* target buffers as the caller hands them over: every bit set
HalfTargets   == {[i \in 1..BufLen |-> \hFFFF]}
SingleTargets == {[i \in 1..BufLen |-> <<\hFFFF, \hFFFF>>]}
DoubleTargets == {[j \in 1..(2 * BufLen) |-> <<\hFFFF, \hFFFF>>]}

Init ==
    /\ host \in Hosts
    /\ FLASE \in BOOLEAN
    /\ StaticsInit
    /\ NoThreads
    /\ orig = NULL
    /\ fn = "none"
    /\ source = NULL
    /\ target = NULL
    /\ prior = NULL
    /\ numel = 0
    /\ ret = TRUE

CallSingles2halfp ==
    /\ calls < MaxCalls
    /\ \E tgt \in {NULL} \cup HalfTargets, src \in {NULL} \cup SingleSources,
          n \in 0..BufLen : singles2halfp(tgt, src, n)
    /\ Frame

CallDoubles2halfp ==
    /\ calls < MaxCalls
    /\ \E tgt \in {NULL} \cup HalfTargets, src \in {NULL} \cup DoubleSources(host),
          n \in 0..BufLen : doubles2halfp(tgt, src, n)
    /\ Frame

CallHalfp2singles ==
    /\ calls < MaxCalls
    /\ \E tgt \in {NULL} \cup SingleTargets, src \in {NULL} \cup HalfSources,
          n \in 0..BufLen : halfp2singles(tgt, src, n)
    /\ Frame

CallHalfp2doubles ==
    /\ calls < MaxCalls
    /\ \E tgt \in {NULL} \cup DoubleTargets, src \in {NULL} \cup HalfSources,
          n \in 0..BufLen : halfp2doubles(tgt, src, n)
    /\ Frame

Next ==
    CallSingles2halfp \/ CallDoubles2halfp \/ CallHalfp2singles \/ CallHalfp2doubles

Spec == Init /\ [][Next]_vars

-----------------------------------------------------------------------------
(* Claims on calls, under Spec                                             *)

C4_ProbeAtMostOnce == probes <= 1

-----------------------------------------------------------------------------
(* First calls of one converter issued by several threads at once          *)
(*                                                                         *)
(* checkieee and next are plain statics read and written without           *)
(* synchronisation.  A store is first held by the storing thread, which    *)
(* reads it back itself, and reaches memory in a later step; two stores of *)
(* one thread reach memory in either order.                                *)

NumThreads == 2
Threads == 1..NumThreads

\* the value thread t reads from static v of the converter (a cmsBool as 0 or 1)
Read(t, v) ==
    IF \E st \in sbuf[t] : st[1] = v
    THEN (CHOOSE st \in sbuf[t] : st[1] = v)[2]
    ELSE IF v = "checkieee" THEN (IF checkieee[fn] THEN 1 ELSE 0) ELSE next[fn]

\* one element holding 1.0, as the source of converter f on host h
OneSource(f, h) ==
    CASE f = "singles2halfp" -> <<<<\h3F80, \h0000>>>>
      [] f = "doubles2halfp" -> DoubleWords(h, IEEE_ONE, Zero32)
      [] OTHER -> <<\h3C00>>

\* a one-element target of converter f with every bit set
OneTarget(f) ==
    CASE f = "halfp2singles" -> <<<<\hFFFF, \hFFFF>>>>
      [] f = "halfp2doubles" -> <<<<\hFFFF, \hFFFF>>, <<\hFFFF, \hFFFF>>>>
      [] OTHER -> <<\hFFFF>>

ThreadInit ==
    /\ host \in Hosts
    /\ FLASE \in BOOLEAN
    /\ StaticsInit
    /\ fn \in Converters
    /\ source = OneSource(fn, host)
    /\ prior = OneTarget(fn)
    /\ target = NULL
    /\ numel = 1
    /\ ret = TRUE
    /\ orig = NULL
    /\ pc = [t \in Threads |-> "start"]
    /\ seen = [t \in Threads |-> -1]
    /\ tret = [t \in Threads |-> TRUE]
    /\ sbuf = [t \in Threads |-> {}]
    /\ tout = [t \in Threads |-> prior]

Shared == <<host, FLASE, fn, source, target, prior, numel, ret, orig>>

\* if( checkieee )  (half.c:96, 186, 279, 361)
ReadFlag(t) ==
    /\ pc[t] = "start"
    /\ pc' = [pc EXCEPT ![t] = IF Read(t, "checkieee") # 0 THEN "probe" ELSE "adjust"]
    /\ UNCHANGED <<Shared, checkieee, next, probes, calls, seen, tret, sbuf, tout>>

\* the probe: the store to next and the test of the word (half.c:97-106)
RunProbe(t) ==
    /\ pc[t] = "probe"
    /\ probes' = probes + 1
    /\ sbuf' = [sbuf EXCEPT ![t] = @ \cup {<<"next", Probe.next>>}]
    /\ IF Probe.ok
       THEN /\ pc' = [pc EXCEPT ![t] = "clear"]
            /\ UNCHANGED <<tret, calls>>
       ELSE /\ pc' = [pc EXCEPT ![t] = "done"]
            /\ tret' = [tret EXCEPT ![t] = ProbeFailed]
            /\ calls' = calls + 1
    /\ UNCHANGED <<Shared, checkieee, next, seen, tout>>

\* checkieee = FALSE  (half.c:107, 197, 290, 372)
ClearFlag(t) ==
    /\ pc[t] = "clear"
    /\ sbuf' = [sbuf EXCEPT ![t] = @ \cup {<<"checkieee", IF Cleared(fn) THEN 1 ELSE 0>>}]
    /\ pc' = [pc EXCEPT ![t] = "adjust"]
    /\ UNCHANGED <<Shared, checkieee, next, probes, calls, seen, tret, tout>>

\* xp += next  (half.c:200, 375; the single converters read no next)
Adjust(t) ==
    /\ pc[t] = "adjust"
    /\ seen' = [seen EXCEPT ![t] =
                  IF fn \in {"doubles2halfp", "halfp2doubles"} THEN Read(t, "next") ELSE @]
    /\ pc' = [pc EXCEPT ![t] = "convert"]
    /\ UNCHANGED <<Shared, checkieee, next, probes, calls, tret, sbuf, tout>>

\* the NULL test, the loop and return TRUE
Convert(t) ==
    /\ pc[t] = "convert"
    /\ tout' = [tout EXCEPT ![t] =
                  IF NothingToConvert(prior, source) THEN @
                  ELSE Loop(fn, @, source, numel, IF seen[t] = -1 THEN 0 ELSE seen[t])]
    /\ tret' = [tret EXCEPT ![t] = TRUE]
    /\ pc' = [pc EXCEPT ![t] = "done"]
    /\ calls' = calls + 1
    /\ UNCHANGED <<Shared, checkieee, next, probes, seen, sbuf>>

\* one store of thread t reaches memory (half.c:99, 101, 107 and their copies)
Flush(t) ==
    /\ \E st \in sbuf[t] :
          /\ sbuf' = [sbuf EXCEPT ![t] = @ \ {st}]
          /\ IF st[1] = "next"
             THEN /\ next' = [next EXCEPT ![fn] = st[2]]
                  /\ UNCHANGED checkieee
             ELSE /\ checkieee' = [checkieee EXCEPT ![fn] = (st[2] # 0)]
                  /\ UNCHANGED next
    /\ UNCHANGED <<Shared, probes, calls, pc, seen, tret, tout>>

ThreadNext ==
    \E t \in Threads :
        ReadFlag(t) \/ RunProbe(t) \/ ClearFlag(t) \/ Adjust(t) \/ Convert(t) \/ Flush(t)

SpecThreads == ThreadInit /\ [][ThreadNext]_vars

\* C5: under every interleaving, every thread returns what a single-threaded
\* call returns on this host (TRUE exactly on a compliant host), and every
\* thread that goes on to convert has added the host's word-order value to xp.
C5_RaceFree ==
    \A t \in Threads :
        /\ pc[t] = "done" => tret[t] = Compliant(host)
        /\ (pc[t] \in {"convert", "done"} /\ seen[t] # -1) => seen[t] = HighIndex(host)

====
